---- MODULE Spec2Model ----
(***************************************************************************)
(* Model of src/main.py: the periodic health-check agent.                  *)
(*                                                                         *)
(* main() loads the configuration and runs main_async, which alternates    *)
(* one health_check_cycle (concurrent check_endpoint probes gathered,      *)
(* then aggregated into domain_stats and reported) with a sleep of         *)
(* max(0, 15 - cycle_duration) seconds.  Times are in milliseconds.        *)
(***************************************************************************)
EXTENDS Integers, Sequences, FiniteSets, TLC

\* ------------------------------------------------------------------ bounds

\* Longest endpoint list the configuration may hold.
MaxEndpoints == 2

\* Number of cycles the scheduler loop is followed for.
MaxCycles == 2

\* Largest counter value the reporting step is exercised on (SpecReport).
MaxChecks == 50

\* ------------------------------------------------------- program constants

\* main.py:128  sleep_time = max(0, 15 - cycle_duration), in milliseconds.
Period == 15000

\* main.py:61  timeout=0.5, in milliseconds.
Timeout == 500

\* main.py:64  elapsed <= 0.5, in milliseconds.
MaxElapsed == 500

\* main.py:64  200 <= response.status
StatusLow == 200

\* main.py:64  response.status < 300
StatusHigh == 300

\* main.py:102  (successful_checks / total_checks) * 100
Hundred == 100

\* main.py:102  a Python float is an IEEE-754 double: its 53-bit significand
\* is held here in a high limb of HiBits bits and two limbs of LimbBits bits.
HiBits == 17
LimbBits == 18

\* --------------------------------------------------------------- the inputs

None == "None"
\* The result slot of a task that has not returned yet.
Pending == [domain |-> "pending", success |-> FALSE]

\* A URL, by the components urlparse splits it into: the scheme, whether a
\* "//" introduces a network location, the host and port written in it, and
\* whether its square brackets are balanced.
Url(scheme, netloc, host, port, brackets) ==
    [scheme |-> scheme, netloc |-> netloc, host |-> host, port |-> port,
     brackets |-> brackets]

UrlAX    == Url("https", TRUE, "a.example", "", TRUE)      \* https://a.example/x
UrlAPort == Url("https", TRUE, "A.Example", "8080", TRUE)  \* https://A.Example:8080/y
UrlAY    == Url("https", TRUE, "a.example", "", TRUE)      \* https://a.example/y
UrlFtp   == Url("ftp", TRUE, "bad", "", TRUE)              \* ftp://bad
UrlBare  == Url("", FALSE, "", "", TRUE)                   \* a.example/x
UrlBrack == Url("http", TRUE, "[::1", "", FALSE)           \* http://[::1/x

\* An endpoint definition of the configuration: a mapping that may lack 'url'.
Endpoint(has_url, url) == [has_url |-> has_url, url |-> url]

EndpointSet ==
    { Endpoint(TRUE, UrlAX), Endpoint(TRUE, UrlAPort),
      Endpoint(TRUE, UrlFtp), Endpoint(TRUE, UrlBare), Endpoint(TRUE, UrlBrack),
      Endpoint(FALSE, UrlBare) }

SeqsUpTo(S, n) == UNION { [1..k -> S] : k \in 0..n }

\* What the configuration file may hold: nothing readable, a value that is
\* not a list, or a list of endpoint definitions.
ConfigFiles ==
    { [kind |-> "unreadable", items |-> << >>],
      [kind |-> "mapping", items |-> << >>] }
    \cup { [kind |-> "list", items |-> s] : s \in SeqsUpTo(EndpointSet, MaxEndpoints) }

\* What session.request does for one probe: a response with a status after
\* `elapsed` ms, a transport error, or the 0.5 s timeout firing.
Statuses == {199, 200, 299, 300}
Latencies == {50, 500, 501}
Outcomes ==
    { [kind |-> "response", status |-> s, elapsed |-> l] :
          s \in Statuses, l \in Latencies }
    \cup { [kind |-> "error", status |-> 0, elapsed |-> 50] }
    \cup { [kind |-> "timeout", status |-> 0, elapsed |-> Timeout] }

\* Time the event loop takes beyond the probes' own latency before the
\* gather returns, and the lateness of a wake-up from asyncio.sleep.
Stalls == {0, 14500}
Overshoots == {0, 1}

VARIABLES
    pc,             \* "main" | "probing" | "sleeping" | "exited"
    config,         \* the configuration file's content
    endpoints,      \* main_async's endpoints
    domain_stats,   \* domain -> [total, successes]
    results,        \* this cycle's probe results, Pending until resolved
    issued,         \* endpoints an HTTP request was issued for, this cycle
    network,        \* what session.request does this cycle, when fixed in advance
    now,            \* time.monotonic(), ms
    cycle_start,    \* main_async's cycle_start
    cycle_duration, \* main_async's cycle_duration
    sleep_time,     \* main_async's sleep_time
    cycles,         \* cycles started
    report,         \* the availability lines logged by the last cycle
    log,            \* the other messages logged
    exit_code       \* the process's exit status, -1 while it runs

vars == << pc, config, endpoints, domain_stats, results, issued, network, now,
           cycle_start, cycle_duration, sleep_time, cycles, report, log,
           exit_code >>

\* The network's behaviour is not fixed in advance: each request draws its own.
Unfixed == [kind |-> "unfixed", status |-> 0, elapsed |-> 0]
NoStats == [d \in {} |-> [total |-> 0, successes |-> 0]]

\* --------------------------------------------------------- extract_domain

\* str.lower() on the host names of the model.
Lower(host) == IF host = "A.Example" THEN "a.example" ELSE host

\* extract_domain taking only http and https URLs for parseable.
ExtractDomainHttpOnly(url) ==
    IF url.scheme \notin {"http", "https"} THEN None
    ELSE IF url.netloc /\ ~url.brackets THEN None
    ELSE IF ~url.netloc \/ url.host = "" THEN None
    ELSE Lower(url.host)

\* urlparse(url).hostname: ValueError on unbalanced brackets (caught, None),
\* None without a network location or with an empty host, else the host in
\* lowercase, the port dropped.
extract_domain(url) ==
    IF url.netloc /\ ~url.brackets THEN None
    ELSE IF ~url.netloc \/ url.host = "" THEN None
    ELSE Lower(url.host)

\* --------------------------------------------------------- check_endpoint

\* IsUp with the latency test strict: a response in exactly 500 ms is down.
IsUpStrict(status, elapsed) ==
    StatusLow <= status /\ status < StatusHigh /\ elapsed < MaxElapsed

\* main.py:64  the "UP" test on a received response.
IsUp(status, elapsed) ==
    StatusLow <= status /\ status < StatusHigh /\ elapsed <= MaxElapsed

\* The success flag check_endpoint returns for what session.request did.
Classify(outcome) ==
    IF outcome.kind = "response" THEN IsUp(outcome.status, outcome.elapsed)
    ELSE FALSE

\* DomainOnError losing the domain: `return None, False` in the handler.
DomainLostOnError(domain) == None

\* main.py:68-70  the domain check_endpoint returns when the request raised.
DomainOnError(domain) == domain

\* The (domain, success) pair check_endpoint returns.
ProbeResult(domain, outcome) ==
    [domain |-> IF outcome.kind = "response" THEN domain ELSE DomainOnError(domain),
     success |-> Classify(outcome)]

\* Skips without the early return: the request is issued all the same.
SkipsNever(domain) == FALSE

\* main.py:50  `if not domain`: no request is issued.
Skips(domain) == domain = None

\* ------------------------------------------- Python float arithmetic (:102)

RECURSIVE Pow2(_)
Pow2(e) == IF e = 0 THEN 1 ELSE 2 * Pow2(e - 1)

\* A positive double is [hi, mid, lo, exp]: its 53-bit significand
\* M = hi * 2^36 + mid * 2^18 + lo, in a high limb of HiBits bits (leading
\* bit 1) and two limbs of LimbBits bits, worth M * 2^(exp - 52).  Zero is
\* the double whose limbs are all 0.
Limb == Pow2(LimbBits)
HiTop == Pow2(HiBits)
FloatZero == [hi |-> 0, mid |-> 0, lo |-> 0, exp |-> 0]

\* The next double above x.
Successor(x) ==
    IF x.lo + 1 < Limb THEN [x EXCEPT !.lo = @ + 1]
    ELSE IF x.mid + 1 < Limb THEN [x EXCEPT !.lo = 0, !.mid = @ + 1]
    ELSE IF x.hi + 1 < HiTop THEN [x EXCEPT !.lo = 0, !.mid = 0, !.hi = @ + 1]
    ELSE [hi |-> HiTop \div 2, mid |-> 0, lo |-> 0, exp |-> x.exp + 1]

\* Round-to-nearest, ties-to-even: x is the exact value cut to 53 bits,
\* guard the first bit cut off, sticky whether any later bit is set.
RoundNearestEven(x, guard, sticky) ==
    IF guard /\ (sticky \/ x.lo % 2 = 1) THEN Successor(x) ELSE x

\* The least e with a * 2^e >= b, for a > 0.
RECURSIVE Shift(_, _)
Shift(a, b) == IF a >= b THEN 0 ELSE 1 + Shift(2 * a, b)

\* float(a) / float(b) for integers 0 <= a <= b, b > 0: the correctly rounded
\* quotient, by long division one limb at a time.
FloatDiv(a, b) ==
    IF a = 0 THEN FloatZero
    ELSE LET e  == Shift(a, b)
             n0 == a * Pow2(e) * Pow2(HiBits - 1)
             r1 == n0 % b
             r2 == (r1 * Limb) % b
             r3 == (r2 * Limb) % b
         IN  RoundNearestEven([hi  |-> n0 \div b,
                               mid |-> (r1 * Limb) \div b,
                               lo  |-> (r2 * Limb) \div b,
                               exp |-> 0 - e],
                              2 * r3 >= b, (2 * r3) % b # 0)

\* x * float(k) for a small positive integer k: the correctly rounded product.
FloatMul(x, k) ==
    IF x = FloatZero THEN FloatZero
    ELSE LET t0 == x.lo * k
             t1 == x.mid * k + t0 \div Limb
             p0 == t0 % Limb
             p1 == t1 % Limb
             p2 == x.hi * k + t1 \div Limb
             s  == Shift(HiTop, p2 + 1)
             cut == Pow2(s)
             up == Pow2(LimbBits - s)
         IN  RoundNearestEven([hi  |-> p2 \div cut,
                               mid |-> p1 \div cut + (p2 % cut) * up,
                               lo  |-> p0 \div cut + (p1 % cut) * up,
                               exp |-> x.exp + s],
                              s > 0 /\ (2 * (p0 % cut)) \div cut = 1,
                              s > 0 /\ (2 * (p0 % cut)) % cut # 0)

\* int(x): truncation toward zero, for 0 <= x < 2^HiBits.
FloatTrunc(x) ==
    IF x = FloatZero \/ x.exp < 0 THEN 0
    ELSE x.hi \div Pow2(HiBits - 1 - x.exp)

\* main.py:102  int((successful_checks / total_checks) * 100) if
\* total_checks > 0 else 0
Availability(successful_checks, total_checks) ==
    IF total_checks > 0
    THEN FloatTrunc(FloatMul(FloatDiv(successful_checks, total_checks), Hundred))
    ELSE 0

\* ----------------------------------------------------- health_check_cycle

ZeroStat == [total |-> 0, successes |-> 0]

\* main.py:92-93  create the entry on first observation.
Ensure(stats, d) ==
    IF d \in DOMAIN stats THEN stats
    ELSE [x \in DOMAIN stats \cup {d} |-> IF x = d THEN ZeroStat ELSE stats[x]]

\* Count with the two increments swapped: total counts the successes.
CountSwapped(stat, success) ==
    [total |-> IF success THEN stat.total + 1 ELSE stat.total,
     successes |-> stat.successes + 1]

\* Count keeping a streak: a failed check puts successes back to zero.
CountStreak(stat, success) ==
    [total |-> stat.total + 1,
     successes |-> IF success THEN stat.successes + 1 ELSE 0]

\* main.py:94-96  the increments for one result of a known domain.
Count(stat, success) ==
    [total |-> stat.total + 1,
     successes |-> IF success THEN stat.successes + 1 ELSE stat.successes]

\* UpdateOne creating the entry anew on every result, not only on the first.
UpdateOneReset(stats, r) ==
    IF r.domain = None THEN stats
    ELSE [x \in DOMAIN stats \cup {r.domain} |->
              IF x = r.domain THEN Count(ZeroStat, r.success) ELSE stats[x]]

\* UpdateOne that only creates the entry of a domain seen for the first
\* time, and counts a result from the second observation on.
UpdateOneCreateOnly(stats, r) ==
    IF r.domain = None THEN stats
    ELSE IF r.domain \notin DOMAIN stats THEN Ensure(stats, r.domain)
    ELSE [stats EXCEPT ![r.domain] = Count(stats[r.domain], r.success)]

\* UpdateOne counting every result twice, as if the probe had been retried.
UpdateOneTwice(stats, r) ==
    IF r.domain = None THEN stats
    ELSE LET s0 == Ensure(stats, r.domain)
         IN  [s0 EXCEPT ![r.domain] =
                 Count(Count(s0[r.domain], r.success), r.success)]

\* main.py:90-96  one iteration of the update loop.
UpdateOne(stats, r) ==
    IF r.domain = None THEN stats
    ELSE LET s0 == Ensure(stats, r.domain)
         IN  [s0 EXCEPT ![r.domain] = Count(s0[r.domain], r.success)]

\* main.py:89-96  the update loop over the gathered results, in order.
RECURSIVE Update(_, _)
Update(stats, rs) ==
    IF rs = << >> THEN stats
    ELSE Update(UpdateOne(stats, Head(rs)), Tail(rs))

\* main.py:99-103  one availability line per known domain.
Report(stats) ==
    { [domain |-> d,
       availability |-> Availability(stats[d].successes, stats[d].total),
       total |-> stats[d].total,
       successes |-> stats[d].successes] : d \in DOMAIN stats }

\* ------------------------------------------------------------------- main

\* The process before main() runs, but for the network.
Boot ==
    /\ pc = "main"
    /\ config \in ConfigFiles
    /\ endpoints = << >>
    /\ domain_stats = NoStats
    /\ results = << >>
    /\ issued = {}
    /\ now = 0
    /\ cycle_start = 0
    /\ cycle_duration = 0
    /\ sleep_time = 0
    /\ cycles = 0
    /\ report = {}
    /\ log = {}
    /\ exit_code = -1

Init == Boot /\ network = Unfixed

\* main.py:123-124, 85-86  the head of a loop iteration: take the cycle's
\* start time and launch one check_endpoint task per endpoint.
StartCycle(eps, t) ==
    /\ cycle_start' = t
    /\ results' = [i \in 1..Len(eps) |-> Pending]
    /\ issued' = {}
    /\ cycles' = cycles + 1
    /\ pc' = "probing"

\* The status main() ends with when the configuration is not a list
\* (main.py:155-157: the error is logged and main returns).
NotAListExit == 0

\* main.py:144-160  main(): load the configuration; an unreadable file raises
\* out of load_config, a non-list is reported, a list starts main_async
\* (main.py:116-124), which runs up to the first gather.
main ==
    /\ pc = "main"
    /\ \/ /\ config.kind = "unreadable"
          /\ pc' = "exited"
          /\ exit_code' = 1
          /\ UNCHANGED << endpoints, domain_stats, results, issued,
                          cycle_start, cycles, log >>
       \/ /\ config.kind \notin {"unreadable", "list"}
          /\ pc' = "exited"
          /\ exit_code' = NotAListExit
          /\ log' = log \cup {"config_not_a_list"}
          /\ UNCHANGED << endpoints, domain_stats, results, issued,
                          cycle_start, cycles >>
       \/ /\ config.kind = "list"
          /\ endpoints' = config.items
          /\ domain_stats' = NoStats
          /\ log' = log \cup {"starting"}
          /\ StartCycle(config.items, now)
          /\ UNCHANGED exit_code
    /\ UNCHANGED << config, network, now, cycle_duration, sleep_time, report >>

\* --------------------------------------------------------- check_endpoint

\* Whether endpoint['url'] (main.py:49) raises KeyError.
RaisesKeyError(endpoint) == ~endpoint.has_url

\* main.py:49-51  whether the task of this endpoint ends before its first
\* await, by the KeyError or by the early return: such a task is over in the
\* event loop's first pass over the cycle's tasks, before any response.
EndsAtOnce(endpoint) ==
    RaisesKeyError(endpoint) \/ Skips(extract_domain(endpoint.url))

\* main.py:31-70  check_endpoint for endpoint i, to its return.  A missing
\* 'url' raises outside the try: the gather re-raises, nothing catches it
\* and the process dies with a traceback, the other tasks cancelled.  A URL without a domain returns at
\* once.  Otherwise the request is issued and session.request responds,
\* fails or times out (outcome o); the timeout cannot fire before Timeout
\* has elapsed.
check_endpoint(i, o) ==
    /\ pc = "probing"
    /\ results[i] = Pending
    /\ \/ /\ RaisesKeyError(endpoints[i])
          /\ pc' = "exited"
          /\ exit_code' = 1
          /\ results' = << >>
          /\ issued' = {}
          /\ UNCHANGED now
       \/ /\ ~RaisesKeyError(endpoints[i])
          /\ Skips(extract_domain(endpoints[i].url))
          /\ now = cycle_start
          /\ results' = [results EXCEPT ![i] =
                             [domain |-> extract_domain(endpoints[i].url),
                              success |-> FALSE]]
          /\ UNCHANGED << pc, exit_code, issued, now >>
       \/ /\ ~RaisesKeyError(endpoints[i])
          /\ ~Skips(extract_domain(endpoints[i].url))
          /\ \A j \in 1..Len(results) :
                 EndsAtOnce(endpoints[j]) => results[j] # Pending
          /\ cycle_start + o.elapsed >= now
          /\ now' = cycle_start + o.elapsed
          /\ results' = [results EXCEPT ![i] =
                             ProbeResult(extract_domain(endpoints[i].url), o)]
          /\ issued' = issued \cup {i}
          /\ UNCHANGED << pc, exit_code >>
    /\ UNCHANGED << config, endpoints, domain_stats, network, cycle_start,
                    cycle_duration, sleep_time, cycles, report, log >>

\* ----------------------------------------------------- health_check_cycle

\* SleepTime as a fixed delay, whatever the cycle took.
SleepTimeFixed(duration) == Period

\* SleepTime with the operands swapped: 15 - max(0, cycle_duration) and
\* then nothing, the cycle's length slept instead of its remainder.
SleepTimeSwapped(duration) == IF duration < Period THEN duration ELSE 0

\* main.py:128  sleep_time = max(0, 15 - cycle_duration)
SleepTime(duration) == IF Period - duration > 0 THEN Period - duration ELSE 0

\* A gather that returns as soon as one task has returned.
GatheredFirst ==
    Len(results) = 0 \/ \E i \in 1..Len(results) : results[i] # Pending

\* A gather that is not awaited: the loop goes on at once.
GatheredAtOnce == TRUE

\* main.py:86  the gather returns only when every task has returned.
Gathered == \A i \in 1..Len(results) : results[i] # Pending

\* main.py:86-103, 125-129  the gather returns: the results are aggregated
\* and reported, the cycle's duration is taken and the sleep begins.
health_check_cycle ==
    /\ pc = "probing"
    /\ Gathered
    /\ \E stall \in Stalls :
          /\ now' = now + stall
          /\ cycle_duration' = now + stall - cycle_start
          /\ sleep_time' = SleepTime(now + stall - cycle_start)
    /\ domain_stats' = Update(domain_stats, results)
    /\ report' = Report(Update(domain_stats, results))
    /\ pc' = "sleeping"
    /\ UNCHANGED << config, endpoints, results, issued, network, cycle_start,
                    cycles, log, exit_code >>

\* ------------------------------------------------------------- main_async

\* main.py:129, 122-124  asyncio.sleep(sleep_time) ends, never early, and
\* the next iteration starts its cycle.
main_async ==
    /\ pc = "sleeping"
    /\ cycles < MaxCycles
    /\ \E late \in Overshoots :
          /\ sleep_time = 0 => late = 0
          /\ now' = now + sleep_time + late
          /\ StartCycle(endpoints, now + sleep_time + late)
    /\ UNCHANGED << config, endpoints, domain_stats, network, cycle_duration,
                    sleep_time, report, log, exit_code >>

\* A shutdown that aggregates the results already in hand of the cycle it
\* interrupts.
KeyboardInterruptFlush ==
    /\ pc \in {"probing", "sleeping"}
    /\ pc' = "exited"
    /\ exit_code' = 0
    /\ log' = log \cup {"shutting_down"}
    /\ domain_stats' =
          IF pc = "probing"
          THEN Update(domain_stats, SelectSeq(results, LAMBDA r : r # Pending))
          ELSE domain_stats
    /\ results' = << >>
    /\ issued' = {}
    /\ UNCHANGED << config, endpoints, network, now, cycle_start,
                    cycle_duration, sleep_time, cycles, report >>

\* main.py:159-162  Ctrl+C while main_async runs: asyncio.run cancels the
\* loop's tasks, whose results are dropped with the gather; main() logs the
\* shutdown and returns.
KeyboardInterrupt ==
    /\ pc \in {"probing", "sleeping"}
    /\ pc' = "exited"
    /\ exit_code' = 0
    /\ log' = log \cup {"shutting_down"}
    /\ results' = << >>
    /\ issued' = {}
    /\ UNCHANGED << config, endpoints, domain_stats, network, now, cycle_start,
                    cycle_duration, sleep_time, cycles, report >>

Next ==
    \/ main
    \/ \E i \in 1..Len(results), o \in Outcomes : check_endpoint(i, o)
    \/ health_check_cycle
    \/ main_async
    \/ KeyboardInterrupt

Spec == Init /\ [][Next]_vars

\* One run of the program in which every request of a cycle meets the same,
\* known behaviour of the network: the inputs of check_endpoint are in the
\* state.
InitProbe == Boot /\ network \in Outcomes

NextProbe ==
    \/ main
    \/ \E i \in 1..Len(results) : check_endpoint(i, network)
    \/ health_check_cycle
    \/ main_async

SpecProbe == InitProbe /\ [][NextProbe]_vars

\* The program at the start of a later cycle, one endpoint configured, its
\* domain's counters anywhere up to MaxChecks: the cycle's probe, aggregation
\* and report.
InitReport ==
    /\ pc = "probing"
    /\ config = [kind |-> "list", items |-> << Endpoint(TRUE, UrlAX) >>]
    /\ endpoints = config.items
    /\ \E t \in 0..MaxChecks, s \in 0..MaxChecks :
          /\ s <= t
          /\ domain_stats = IF t = 0 THEN NoStats
                            ELSE [d \in {"a.example"} |->
                                      [total |-> t, successes |-> s]]
          /\ cycles = t + 1
          /\ now = t * Period
          /\ cycle_start = t * Period
          /\ report = Report(domain_stats)
    /\ results = << Pending >>
    /\ issued = {}
    /\ network = Unfixed
    /\ cycle_duration = IF cycles = 1 THEN 0 ELSE 50
    /\ sleep_time = IF cycles = 1 THEN 0 ELSE Period - 50
    /\ log = {"starting"}
    /\ exit_code = -1

NextReport ==
    \/ \E i \in 1..Len(results), o \in Outcomes : check_endpoint(i, o)
    \/ health_check_cycle

SpecReport == InitReport /\ [][NextReport]_vars

\* The scenario of three endpoints, https://a.example/x, https://a.example/y
\* and ftp://bad: the first two requests are answered 200 in 50 ms, the
\* third meets whatever the network does.
ScenarioEndpoints ==
    << Endpoint(TRUE, UrlAX), Endpoint(TRUE, UrlAY), Endpoint(TRUE, UrlFtp) >>

Ok50 == [kind |-> "response", status |-> 200, elapsed |-> 50]

ScenarioOutcome(i) == IF i \in {1, 2} THEN Ok50 ELSE network

InitScenario ==
    /\ pc = "main"
    /\ config = [kind |-> "list", items |-> ScenarioEndpoints]
    /\ endpoints = << >>
    /\ domain_stats = NoStats
    /\ results = << >>
    /\ issued = {}
    /\ network \in Outcomes
    /\ now = 0
    /\ cycle_start = 0
    /\ cycle_duration = 0
    /\ sleep_time = 0
    /\ cycles = 0
    /\ report = {}
    /\ log = {}
    /\ exit_code = -1

NextScenario ==
    \/ main
    \/ \E i \in 1..Len(results) : check_endpoint(i, ScenarioOutcome(i))
    \/ health_check_cycle
    \/ main_async
    \/ KeyboardInterrupt

SpecScenario == InitScenario /\ [][NextScenario]_vars

\* The program under the event loop's scheduling: a task that can run is
\* run, so every probe goes on to its return, a gather whose tasks have all
\* returned resumes, and a sleep that is over ends.  Nothing obliges the
\* interrupt to come.
SpecLive ==
    /\ Init
    /\ [][Next]_vars
    /\ \A j \in 1..MaxEndpoints + 1 :
          WF_vars(\E o \in Outcomes : j \in 1..Len(results) /\ check_endpoint(j, o))
    /\ WF_vars(health_check_cycle)
    /\ WF_vars(main_async)

\* ================================================================== claims

\* The domain of endpoint i, when its definition has a URL that yields one.
HasDomain(i) ==
    /\ endpoints[i].has_url
    /\ extract_domain(endpoints[i].url) # None

\* Endpoint i has a URL, and the URL yields no domain.
Unparseable(i) ==
    /\ endpoints[i].has_url
    /\ extract_domain(endpoints[i].url) = None

Resolved(i) == i \in 1..Len(results) /\ results[i] # Pending

\* A step in which the gather returns and the cycle is aggregated.
Aggregates == pc = "probing" /\ pc' = "sleeping"

\* A step in which the sleep ends and the next cycle starts.
StartsNext == pc = "sleeping" /\ pc' = "probing"

\* The counters of d before its first observation are zero.
StatOf(stats, d) == IF d \in DOMAIN stats THEN stats[d] ELSE ZeroStat

\* C1: for every domain of domain_stats, successes <= total, in every
\* reachable state.
C1_SuccessesAtMostTotal ==
    \A d \in DOMAIN domain_stats :
        domain_stats[d].successes <= domain_stats[d].total

\* C1's case: a domain updated over two cycles, with both successes and
\* failures counted.
C1_Witness ==
    /\ cycles = 2
    /\ pc = "sleeping"
    /\ \E d \in DOMAIN domain_stats :
          /\ domain_stats[d].total >= 3
          /\ domain_stats[d].successes >= 1
          /\ domain_stats[d].successes < domain_stats[d].total

\* C2: an endpoint whose URL yields a domain and whose request got a
\* response with a status in [200, 300) within at most 500 ms, 500 ms
\* included, resolves to (domain, true).
C2_UpOnFast2xx ==
    \A i \in 1..Len(results) :
        ( /\ Resolved(i)
          /\ HasDomain(i)
          /\ network.kind = "response"
          /\ 200 <= network.status /\ network.status < 300
          /\ network.elapsed <= 500 )
        => results[i] = [domain |-> extract_domain(endpoints[i].url),
                         success |-> TRUE]

\* C2's case: a probe resolved on a 2xx response that took exactly 500 ms.
C2_Witness ==
    /\ network.kind = "response"
    /\ network.status = 299
    /\ network.elapsed = 500
    /\ \E i \in 1..Len(results) :
          Resolved(i) /\ HasDomain(i) /\ i \in issued /\ results[i].success

\* C3: an endpoint whose URL yields a domain and whose request got a status
\* outside [200, 300), or took more than 500 ms, or raised or timed out,
\* resolves to (domain, false), the domain still in the result.
C3_DownOtherwise ==
    \A i \in 1..Len(results) :
        ( /\ Resolved(i)
          /\ HasDomain(i)
          /\ \/ network.kind \in {"error", "timeout"}
             \/ /\ network.kind = "response"
                /\ \/ network.status < 200
                   \/ network.status >= 300
                   \/ network.elapsed > 500 )
        => results[i] = [domain |-> extract_domain(endpoints[i].url),
                         success |-> FALSE]

\* C3's case: a probe of a.example resolved after its request timed out.
C3_Witness ==
    /\ network.kind = "timeout"
    /\ \E i \in 1..Len(results) :
          /\ Resolved(i)
          /\ i \in issued
          /\ results[i] = [domain |-> "a.example", success |-> FALSE]

\* The results of the endpoints whose URL yields a domain, in order.
RECURSIVE ParseableResults(_, _)
ParseableResults(rs, i) ==
    IF i > Len(rs) THEN << >>
    ELSE (IF Unparseable(i) THEN << >> ELSE << rs[i] >>)
         \o ParseableResults(rs, i + 1)

\* C4: an endpoint whose URL yields no domain resolves to (absent, false)
\* with no request issued, and the aggregation is the one of the other
\* endpoints' results alone: no entry is created or changed for it.
C4_UnparseableSkipped ==
    /\ [](\A i \in 1..Len(results) :
             (Resolved(i) /\ Unparseable(i))
             => /\ results[i] = [domain |-> None, success |-> FALSE]
                /\ i \notin issued)
    /\ [][Aggregates =>
             /\ domain_stats' = Update(domain_stats, ParseableResults(results, 1))
             /\ None \notin DOMAIN domain_stats']_vars

\* C4's case: a cycle aggregated whose endpoints are one with a domain and
\* one without, while the network answers 200.
C4_Witness ==
    /\ pc = "sleeping"
    /\ network.kind = "response" /\ network.status = 200
    /\ Len(results) = 2
    /\ Unparseable(1) /\ HasDomain(2)
    /\ DOMAIN domain_stats = { extract_domain(endpoints[2].url) }

\* The results of the batch rs taken in the order the permutation p gives.
Permuted(rs, p) == [i \in 1..Len(rs) |-> rs[p[i]]]

\* How many results of the batch are for domain d, and how many of those
\* are successes.
ResultsFor(rs, d) == Cardinality({ i \in 1..Len(rs) : rs[i].domain = d })
SuccessesFor(rs, d) ==
    Cardinality({ i \in 1..Len(rs) : rs[i].domain = d /\ rs[i].success })

\* C5: aggregating a cycle's batch adds to each domain's total the number of
\* the batch's results for it and to its successes the number of successful
\* ones, and every permutation of the batch gives the same counters.
C5_BatchCounts ==
    [][Aggregates =>
          /\ \A d \in DOMAIN domain_stats' :
                /\ domain_stats'[d].total
                     = StatOf(domain_stats, d).total + ResultsFor(results, d)
                /\ domain_stats'[d].successes
                     = StatOf(domain_stats, d).successes + SuccessesFor(results, d)
          /\ DOMAIN domain_stats' =
                DOMAIN domain_stats
                \cup ({ results[i].domain : i \in 1..Len(results) } \ {None})
          /\ \A p \in Permutations(1..Len(results)) :
                Update(domain_stats, Permuted(results, p)) = domain_stats'
      ]_vars

\* C5's case: the second cycle aggregated a batch of two results for one
\* domain, a failure and then a success, onto counters of the first cycle.
C5_Witness ==
    /\ pc = "sleeping"
    /\ cycles = 2
    /\ Len(results) = 2
    /\ results[1].domain = "a.example" /\ ~results[1].success
    /\ results[2].domain = "a.example" /\ results[2].success
    /\ domain_stats["a.example"].total = 4

\* C6: no error in probing one endpoint aborts the cycle or the process:
\* the process ends only on a configuration that failed to load or is not
\* a list, or on cancellation.
C6_ProbeErrorsContained ==
    pc = "exited" => (config.kind # "list" \/ "shutting_down" \in log)

\* C7: after a cycle of duration d the scheduler sleeps max(0, 15 - d): the
\* next cycle starts no sooner than that after the cycle ended, at once
\* when d >= 15, and it is the one next cycle, none skipped and none owed.
C7_SleepsTheRemainder ==
    /\ [](pc = "sleeping" =>
             /\ now = cycle_start + cycle_duration
             /\ (cycle_duration < 15000 => sleep_time = 15000 - cycle_duration)
             /\ (cycle_duration >= 15000 => sleep_time = 0))
    /\ [][StartsNext =>
             /\ cycle_start' >= cycle_start + cycle_duration + sleep_time
             /\ (cycle_duration >= 15000
                 => cycle_start' = cycle_start + cycle_duration)
             /\ cycles' = cycles + 1
             /\ \A i \in 1..Len(results') : results'[i] = Pending]_vars

\* C7's case: the second cycle started at once after a first cycle that
\* took exactly the period, so that nothing was left to sleep.
C7_Witness ==
    /\ pc = "probing"
    /\ cycles = 2
    /\ cycle_duration = Period
    /\ sleep_time = 0
    /\ cycle_start = Period

C9_NotAListExitsNonZero ==
    /\ (pc = "exited" /\ config.kind \notin {"list", "unreadable"})
       => /\ "config_not_a_list" \in log
          /\ cycles = 0
          /\ exit_code # 0
    /\ (pc = "exited" /\ "shutting_down" \in log) => exit_code = 0

\* C10: every availability reported is floor(successes * 100 / total) when
\* total > 0, and 0 when total = 0.
C10_AvailabilityIsFloor ==
    pc = "sleeping" =>
        \A line \in report :
            line.availability =
                IF line.total > 0 THEN (line.successes * 100) \div line.total
                ELSE 0


\* C11, as stated: with endpoints https://a.example/x, https://a.example/y
\* and ftp://bad, the first two answered 200 in 50 ms, after one cycle
\* domain_stats is exactly {a.example: total 2, successes 2}, reported at
\* 100%, with no entry for the third endpoint.
C11_ScenarioAsStated ==
    (pc = "sleeping" /\ cycles = 1) =>
        /\ domain_stats = [d \in {"a.example"} |-> [total |-> 2, successes |-> 2]]
        /\ report = { [domain |-> "a.example", availability |-> 100,
                       total |-> 2, successes |-> 2] }

\* C11, amended: after one cycle a.example has total 2, successes 2 and is
\* reported at 100%, and the third endpoint, whose URL parses to the host
\* "bad", has an entry of its own with total 1, its successes 0 unless its
\* request was answered 2xx within 500 ms.
C11_ScenarioStats ==
    (pc = "sleeping" /\ cycles = 1) =>
        /\ DOMAIN domain_stats = {"a.example", "bad"}
        /\ domain_stats["a.example"] = [total |-> 2, successes |-> 2]
        /\ domain_stats["bad"].total = 1
        /\ domain_stats["bad"].successes =
              IF /\ network.kind = "response"
                 /\ 200 <= network.status /\ network.status < 300
                 /\ network.elapsed <= 500
              THEN 1 ELSE 0
        /\ [domain |-> "a.example", availability |-> 100,
            total |-> 2, successes |-> 2] \in report
        /\ \E line \in report : line.domain = "bad" /\ line.total = 1

\* C11's case: the scenario's first cycle aggregated, the request to
\* ftp://bad having failed.
C11_Witness ==
    /\ pc = "sleeping"
    /\ cycles = 1
    /\ endpoints = ScenarioEndpoints
    /\ network.kind = "error"
    /\ "bad" \in DOMAIN domain_stats
    /\ domain_stats["bad"] = [total |-> 1, successes |-> 0]


\* C12: in every step of the process, every domain that has an entry keeps
\* it, and neither its total nor its successes decreases.
C12_CountersNeverDecrease ==
    [][\A d \in DOMAIN domain_stats :
          /\ d \in DOMAIN domain_stats'
          /\ domain_stats'[d].total >= domain_stats[d].total
          /\ domain_stats'[d].successes >= domain_stats[d].successes]_vars

\* C12's case: an entry that lived through a second aggregation, in which
\* its check failed after one that had succeeded.
C12_Witness ==
    /\ pc = "sleeping"
    /\ cycles = 2
    /\ Len(results) = 1
    /\ ~results[1].success
    /\ \E d \in DOMAIN domain_stats :
          domain_stats[d] = [total |-> 2, successes |-> 1]


\* C13: every entry of domain_stats has total >= 1, in every state and so at
\* every reporting step, and every reported line is for a domain with
\* total >= 1: no domain with total 0 is ever reported.
C13_ReportedDomainsWereChecked ==
    /\ \A d \in DOMAIN domain_stats : domain_stats[d].total >= 1
    /\ \A line \in report : line.total >= 1

\* C13's case: a domain reported after a single check, which failed.
C13_Witness ==
    /\ pc = "sleeping"
    /\ \E line \in report :
          line.total = 1 /\ line.successes = 0 /\ line.availability = 0


\* C14: cycles never overlap.  A cycle after the first starts only from the
\* sleep that follows the previous cycle, when every probe of that cycle has
\* resolved and its results have been aggregated and reported, and it is the
\* next cycle in number; a probe resolves only within the cycle under way.
C14_CyclesNeverOverlap ==
    [][/\ (cycles >= 1 /\ cycles' # cycles) =>
             /\ pc = "sleeping"
             /\ \A i \in 1..Len(endpoints) : Resolved(i)
             /\ report = Report(domain_stats)
             /\ cycles' = cycles + 1
             /\ \A i \in 1..Len(results') : results'[i] = Pending
       /\ \A i \in 1..Len(results) :
             (Len(results') = Len(results) /\ results[i] = Pending
                  /\ results'[i] # Pending) =>
                 (pc = "probing" /\ cycles' = cycles)]_vars

\* C14's case: a probe of the second cycle has resolved, the first cycle's
\* results being in the counters.
C14_Witness ==
    /\ pc = "probing"
    /\ cycles = 2
    /\ Len(results) = 2
    /\ Resolved(1)
    /\ ~Resolved(2)
    /\ \E d \in DOMAIN domain_stats : domain_stats[d].total = 2

\* C15: domain_stats changes only in the aggregation step, taken when every
\* probe of the cycle has resolved; it is unchanged by every step taken
\* while a probe is unresolved, during the sleep and at shutdown.
C15_OnlyAggregationWrites ==
    [][domain_stats' # domain_stats =>
           /\ Aggregates
           /\ \A i \in 1..Len(endpoints) : Resolved(i)
           /\ domain_stats' = Update(domain_stats, results)]_vars

\* C15's case: the counters written by the aggregation of a cycle of two
\* probes, for two domains.
C15_Witness ==
    /\ pc = "sleeping"
    /\ cycles = 1
    /\ Len(results) = 2
    /\ Cardinality(DOMAIN domain_stats) = 2
    /\ \A d \in DOMAIN domain_stats : domain_stats[d].total = 1


\* The number of configured endpoints whose URL maps to domain d.
EndpointsFor(d) ==
    Cardinality({ i \in 1..Len(endpoints) :
                     HasDomain(i) /\ extract_domain(endpoints[i].url) = d })

\* The domains of the configured endpoints.
ConfiguredDomains ==
    { extract_domain(endpoints[i].url) :
          i \in { j \in 1..Len(endpoints) : HasDomain(j) } }

\* The cycles aggregated so far: all but the one under way.
AggregatedCycles == IF pc = "probing" THEN cycles - 1 ELSE cycles

\* C16: the shutdown on cancellation, whether it comes during the probes or
\* during the sleep, leaves domain_stats as it was and drops the results of
\* the cycle under way, resolved or not; the counters at shutdown are those
\* of the cycles aggregated before, each domain's total being that number
\* of cycles times the number of its endpoints.
C16_ShutdownKeepsWholeCycles ==
    [][("shutting_down" \notin log /\ "shutting_down" \in log') =>
           /\ pc' = "exited"
           /\ domain_stats' = domain_stats
           /\ results' = << >>
           /\ DOMAIN domain_stats' \subseteq ConfiguredDomains
           /\ \A d \in ConfiguredDomains :
                  StatOf(domain_stats', d).total
                      = AggregatedCycles * EndpointsFor(d)]_vars

\* C16's case: a shutdown during the second cycle of two endpoints of one
\* domain, the counters being those of the first cycle alone.
C16_Witness ==
    /\ pc = "exited"
    /\ "shutting_down" \in log
    /\ cycles = 2
    /\ Len(endpoints) = 2
    /\ \E d \in DOMAIN domain_stats :
          EndpointsFor(d) = 2 /\ domain_stats[d].total = 2


\* C17: every cycle that starts eventually completes: once the probes are
\* launched, the results are eventually aggregated and the sleep before the
\* next cycle begins, unless the loop is cancelled.
C17_CycleCompletes ==
    (pc = "probing") ~> (pc = "sleeping" \/ "shutting_down" \in log)


\* C18: a cycle has exactly one probe per configured endpoint, and a probe
\* that has resolved is not made again within the cycle.  While the loop
\* runs, the domains of domain_stats are among those of the configured
\* endpoints and each domain's total is the number of cycles aggregated so
\* far times the number of endpoints whose URL maps to it; each aggregation
\* adds to a domain's successes the number of successful probes of its
\* endpoints in that cycle.
C18_OneProbePerEndpointPerCycle ==
    /\ [](pc \in {"probing", "sleeping"} =>
             /\ Len(results) = Len(endpoints)
             /\ issued \subseteq 1..Len(endpoints)
             /\ DOMAIN domain_stats \subseteq ConfiguredDomains
             /\ \A d \in ConfiguredDomains :
                    StatOf(domain_stats, d).total
                        = AggregatedCycles * EndpointsFor(d))
    /\ [][/\ \A i \in 1..Len(results) :
                (Resolved(i) /\ cycles' = cycles /\ pc' # "exited") =>
                    (Len(results') = Len(results) /\ results'[i] = results[i])
          /\ Aggregates =>
                \A d \in ConfiguredDomains :
                    StatOf(domain_stats', d).successes
                        = StatOf(domain_stats, d).successes
                              + SuccessesFor(results, d)]_vars

\* C18's case: two endpoints of one domain, each probed once in each of two
\* aggregated cycles, half of the four probes successful.
C18_Witness ==
    /\ pc = "sleeping"
    /\ cycles = 2
    /\ Len(endpoints) = 2
    /\ \E d \in DOMAIN domain_stats :
          /\ EndpointsFor(d) = 2
          /\ domain_stats[d] = [total |-> 4, successes |-> 2]

====
